---- MODULE Spec2Model ----
(***************************************************************************)
(* A model of marc: selection of representative conformers.                *)
(*                                                                         *)
(*   src/marc/marc.py        the pipeline script (metric matrices, mixing, *)
(*                           scaling, clustering dispatch, energy window,  *)
(*                           writing)                                      *)
(*   src/marc/clustering.py  kmeans_clustering, affprop_clustering,        *)
(*                           agglomerative_clustering, gap                 *)
(*   src/marc/helpers.py     processargs                                   *)
(*                                                                         *)
(* Python lists are sequences (list position i is sequence position i+1),  *)
(* numpy arrays over the ensemble are functions on 0..N-1.  An optional    *)
(* value, and a name that is not bound yet, is a sequence of length 0 or 1.*)
(* Real numbers are exact rationals: a matrix is a record [num, den] whose *)
(* entry (i,j) is num[i][j]/den; den = 0 is the result of a division by a  *)
(* zero maximum (numpy yields nan/inf and goes on).                        *)
(*                                                                         *)
(* scikit-learn (MDS, KMeans, AffinityPropagation, AgglomerativeClustering,*)
(* NearestCentroid) is outside the repository: what an estimator returns   *)
(* is a choice among the values its contract allows.                       *)
(***************************************************************************)
EXTENDS Integers, Sequences, FiniteSets, TLC

\* ------------------------------------------------------------------ bounds
\* largest ensemble (number of molecules)
MaxN == 3
\* largest entry of a raw dissimilarity matrix
MaxD == 2
\* largest energy of a molecule
MaxE == 1
\* largest verbosity level given on the command line
MaxVerb == 2
\* largest coordinate of an embedded point (the embedding is drawn on a grid)
MaxCoord == 1
\* largest energy window given on the command line
MaxEwin == 1
\* largest ensemble size for which the gap candidates are enumerated
MaxNm == 120
\* largest gap value (gap values are drawn from 0..MaxGap)
MaxGap == 1
\* bits of the significand of a floating-point number (IEEE double: 53)
Precision == 3
\* largest entry of a raw dissimilarity matrix behind the matrices that
\* agglomerative_clustering is studied on by itself
MaxRaw == 3

VARIABLES
    pc,            \* position of the script / of the function under study
    err,           \* name of the exception that ended the run, or "none"
    molecules,     \* molecules[i] = energy of molecule i: <<>> (None) or <<e>>
    m,             \* metric key (args.m); <<>> once no line reads it any more
    rmsd_matrix,   \* <<>> until built, then <<matrix>>
    erel_matrix,
    da_matrix,
    A,             \* the matrix handed to clustering
    call,          \* <<>> or <<the clustering call made by the script>>
    fn,            \* clustering function under study
    n_clusters,    \* requested cluster count: <<>> (None) or <<k>>
    rank,          \* rank parameter of the function under study
    x,             \* MDS embedding used by the function
    labels,        \* labels_ of the fitted clusterer
    indices,       \* closest_pt_idx as returned / indices of the script
    clusters,      \* clusters as returned
    ewin,          \* energy window: unread (<<>>), or <<None>> / <<w>>
    written,       \* ensemble indices written out, in order
    nm,            \* ensemble size seen by the gap candidate policy
    percentages,   \* candidate cluster counts
    nrefs,         \* number of reference datasets passed to gap
    gaps           \* gap value per candidate

vars == <<pc, err, molecules, m, rmsd_matrix, erel_matrix, da_matrix, A, call,
          fn, n_clusters, rank, x, labels, indices, clusters, ewin, written,
          nm, percentages, nrefs, gaps>>

\* ----------------------------------------------------------------- helpers
None == <<>>
Some(v) == <<v>>
Val(o) == o[1]

Abs(a) == IF a < 0 THEN -a ELSE a
Max2(a, b) == IF a >= b THEN a ELSE b
Min2(a, b) == IF a <= b THEN a ELSE b
SetMax(S) == CHOOSE a \in S : \A b \in S : b <= a
SetMin(S) == CHOOSE a \in S : \A b \in S : a <= b

RECURSIVE SumOver(_, _)
\* sum of f[i] for i in S
SumOver(f, S) ==
    IF S = {} THEN 0
    ELSE LET i == CHOOSE j \in S : TRUE IN f[i] + SumOver(f, S \ {i})

RECURSIVE SortedSeq(_)
\* the members of a set of integers in ascending order (np.where(...)[0])
SortedSeq(S) ==
    IF S = {} THEN <<>>
    ELSE LET lo == SetMin(S) IN <<lo>> \o SortedSeq(S \ {lo})

Range(s) == {s[i] : i \in DOMAIN s}

\* ---------------------------------------------------------------- matrices
Idx(n) == 0 .. (n - 1)
Size(M) == Cardinality(DOMAIN M.num)
Pairs(n) == {p \in Idx(n) \X Idx(n) : p[1] < p[2]}

\* What a metric collaborator (rmsd_matrix, erel_matrix, da_matrix) returns
\* for n molecules: a symmetric, zero-diagonal, non-negative matrix.
MetricMatrices(n) ==
    { [num |-> [i \in Idx(n) |-> [j \in Idx(n) |->
                   IF i = j THEN 0
                   ELSE IF i < j THEN t[<<i, j>>] ELSE t[<<j, i>>]]],
       den |-> 1] : t \in [Pairs(n) -> 0 .. MaxD] }

\* np.max(X) of the numerators
MaxEntry(M) == SetMax({M.num[i][j] : i \in DOMAIN M.num, j \in DOMAIN M.num})

\* the division by the maximum left out
Unscaled(M) ==
    [num |-> [i \in DOMAIN M.num |-> [j \in DOMAIN M.num |-> Abs(M.num[i][j])]],
     den |-> M.den]

\* np.abs(X) / np.max(X): every entry |num|/den divided by max(num)/den.
\* A zero maximum divides by zero: den becomes 0.
Scale(M) ==
    [num |-> [i \in DOMAIN M.num |-> [j \in DOMAIN M.num |-> Abs(M.num[i][j])]],
     den |-> IF M.den = 0 THEN 0 ELSE MaxEntry(M)]

\* X * Y, elementwise
Times(X, Y) ==
    [num |-> [i \in DOMAIN X.num |-> [j \in DOMAIN X.num |->
                 X.num[i][j] * Y.num[i][j]]],
     den |-> X.den * Y.den]

\* np.ones_like(X) - X
Affinity(M) ==
    [num |-> [i \in DOMAIN M.num |-> [j \in DOMAIN M.num |->
                 M.den - M.num[i][j]]],
     den |-> M.den]

\* no nan and no inf among the entries
Finite(M) == M.den # 0

\* ----------------------------------------------- floating-point arithmetic
\* numpy computes in binary floating point: every operation returns the
\* representable number nearest to the exact result, ties to the even
\* significand.  A float is kept as the integer k of k / 2^FracBits; the
\* representable ones are the k whose significand has Precision bits.
\* enough fraction bits for the square of the smallest difference of two
\* matrix entries to be rounded as any other number is
FracBits == 3 * Precision + 1

RECURSIVE Doubled(_)
Doubled(e) == IF e = 0 THEN 1 ELSE 2 * Doubled(e - 1)

\* the powers of two that are used
Powers == [e \in 0 .. FracBits + 3 |-> Doubled(e)]

Pow2(e) == Powers[e]

\* 1.0
One == Pow2(FracBits)

\* No number that is rounded is larger: the entries are at most 1.0, and a
\* sum runs over at most MaxN of them or of their squares.
Largest == MaxN * One

\* the spacing of the representable numbers around k >= 0, tabulated
Spacing ==
    [k \in 0 .. Largest |->
        Pow2(CHOOSE s \in 0 .. FracBits + 3 :
                /\ k \div Pow2(s) < Pow2(Precision)
                /\ s > 0 => k \div Pow2(s - 1) >= Pow2(Precision))]

Ulp(k) == Spacing[k]

\* the representable number nearest to num / den (num >= 0, den > 0)
RoundPos(num, den) ==
    LET u == Ulp(num \div den)
        n == num \div (den * u)
        r == num - n * den * u
    IN  IF 2 * r > den * u \/ (2 * r = den * u /\ n % 2 = 1)
        THEN (n + 1) * u ELSE n * u

Round(num, den) == IF num < 0 THEN -RoundPos(-num, den) ELSE RoundPos(num, den)

\* a + b, a - b, a * b of two floats; a / n for a count n
FAdd(a, b) == Round(a + b, 1)
FSub(a, b) == Round(a - b, 1)
FMul(a, b) == Round(a * b, One)
FDiv(a, n) == Round(a, n)

\* the representable numbers below 4.0
Representable ==
    {mant * Pow2(s) : mant \in 0 .. Pow2(Precision) - 1,
                      s \in 0 .. FracBits + 2 - Precision}

\* the representable number nearest to the square root of a, tabulated
Roots ==
    [a \in 0 .. Largest |->
    LET lo == CHOOSE f \in Representable :
                  /\ f * f <= a * One
                  /\ (f + Ulp(f)) * (f + Ulp(f)) > a * One
        hi == lo + Ulp(lo)
    IN  IF 4 * a * One < (lo + hi) * (lo + hi) THEN lo
        ELSE IF 4 * a * One > (lo + hi) * (lo + hi) THEN hi
        ELSE IF (lo \div Ulp(lo)) % 2 = 0 THEN lo ELSE hi]

\* np.sqrt(a)
FSqrt(a) == Roots[a]

\* The entries of a finite matrix M (of non-negative numerators) as the
\* floats the division np.abs(A) / np.max(A) left in it
Doubles(M) ==
    [i \in DOMAIN M.num |-> [j \in DOMAIN M.num |->
        Round(M.num[i][j] * One, M.den)]]

\* m = np.ones_like(m) - m, on floats
OnesMinus(rows) ==
    [i \in DOMAIN rows |-> [j \in DOMAIN rows |-> FSub(One, rows[i][j])]]

RECURSIVE FSum(_, _)
\* the first n entries of the sequence s added up from the left
FSum(s, n) == IF n = 0 THEN 0 ELSE FAdd(FSum(s, n - 1), s[n])

\* X[cm == cls].mean(axis=0) of NearestCentroid.fit: the rows of the members
\* added up in index order, divided by their number
FCentroid(pts, members) ==
    [d \in DOMAIN pts[members[1]] |->
        FDiv(FSum([p \in DOMAIN members |-> pts[members[p]][d]], Len(members)),
             Len(members))]

RECURSIVE SumSq(_, _, _)
\* the squares of the first n coordinates of u - v added up from the left
SumSq(u, v, n) ==
    IF n = 0 THEN 0
    ELSE FAdd(SumSq(u, v, n - 1),
              FMul(FSub(u[n - 1], v[n - 1]), FSub(u[n - 1], v[n - 1])))

\* scipy's euclidean(u, v)
FEuclidean(u, v) == FSqrt(SumSq(u, v, Cardinality(DOMAIN u)))

\* Python's == between a str and a list is False whatever they hold
PyEqStrList(s, l) == FALSE

Algorithms == {"kmeans", "agglomerative", "affprop"}
Metrics == {"rmsd", "erel", "da", "ewrmsd", "ewda", "mix"}

N == Cardinality(DOMAIN molecules)
NoneInEnergies == \E i \in DOMAIN molecules : molecules[i] = None

\* ------------------------------------------- clustering.py: gap candidates
\* the percentages [0.01, 0.05, 0.1, 0.25, 0.5], in hundredths
Percents == {1, 5, 10, 25, 50}

\* the cap at 50 left out
CandidateUncapped(n, p) == Max2((n * p) \div 100, 2)

\* min(max(int(nm * percentage), 2), 50); int() truncates, and nm * percentage
\* is not negative
Candidate(n, p) == Min2(Max2((n * p) \div 100, 2), 50)

\* list(set([...])): the order in which a set is listed is not specified, so
\* the list is kept as the set of its elements
Percentages(n) == {Candidate(n, p) : p \in Percents}

\* nrefs=max(nm, 50)
Nrefs(n) == Max2(n, 50)

\* what gap() can return for the candidates ks: one value per candidate
GapValues(ks) == [ks -> 0 .. MaxGap]

\* percentages[np.argmax(gaps)]: the first maximal entry in list order, which
\* can be any candidate whose gap value is the largest
ArgMaxGap(ks, g) == {k \in ks : \A j \in ks : g[j] <= g[k]}

\* n_clusters = max(percentages[np.argmax(gaps)], 2)
SelectedCount(k) == Max2(k, 2)

\* the counts the gap branch can resolve to for an ensemble of n members
GapCounts(n) ==
    UNION { {SelectedCount(k) : k \in ArgMaxGap(Percentages(n), g)} :
            g \in GapValues(Percentages(n)) }

\* ------------------------------------------------- clustering.py: library
\* MDS(n_components=r).fit_transform(m): one point of the grid per member
Embeddings(n, r) == [Idx(n) -> [1 .. r -> 0 .. MaxCoord]]

\* KMeans(n_clusters=k).fit_predict / AgglomerativeClustering(n_clusters=k)
\* .fit_predict on n >= k samples: labels 0..k-1, every label used
LabelVectors(n, k) ==
    {l \in [Idx(n) -> Idx(k)] : \A q \in Idx(k) : \E i \in Idx(n) : l[i] = q}

\* AffinityPropagation.fit_predict: on convergence the sorted exemplars
\* (cluster_centers_indices_) and labels_ with every exemplar labelled by
\* its own position; without convergence no exemplar and the label -1 for
\* every sample.
AffPropFits(n) ==
    LET converged ==
            UNION { LET e == SortedSeq(E) IN
                    { [centers |-> e, labels |-> l] :
                      l \in {f \in [Idx(n) -> Idx(Len(e))] :
                                \A p \in 1 .. Len(e) : f[e[p]] = p - 1} } :
                    E \in (SUBSET Idx(n)) \ {{}} }
    IN  converged \cup {[centers |-> <<>>, labels |-> [i \in Idx(n) |-> -1]]}

\* u.size of np.unique(cm)
UniqueCount(lab) == Cardinality({lab[i] : i \in DOMAIN lab})

\* <= for ==: a cluster also takes the members of the clusters before it
MembersUpTo(lab, iclust) == SortedSeq({i \in DOMAIN lab : lab[i] <= iclust})

\* np.where(labels_ == iclust)[0]
Members(lab, iclust) == SortedSeq({i \in DOMAIN lab : lab[i] = iclust})

\* the mean of the points pts[i], i in S, kept as sum and count
\* (km.cluster_centers_[iclust], clf.centroids_[iclust])
Centroid(pts, S) ==
    LET dims == DOMAIN pts[CHOOSE i \in S : TRUE] IN
    [sum |-> [d \in dims |-> SumOver([i \in S |-> pts[i][d]], S)],
     cnt |-> Cardinality(S)]

\* euclidean(pt, cen), squared and scaled by cen.cnt^2: same order
Euclidean2(pt, cen) ==
    SumOver([d \in DOMAIN pt |->
                (cen.cnt * pt[d] - cen.sum[d]) * (cen.cnt * pt[d] - cen.sum[d])],
            DOMAIN pt)

\* the last smallest entry instead of the first
ArgMinLast(vals) ==
    CHOOSE p \in DOMAIN vals :
        /\ \A q \in DOMAIN vals : vals[p] <= vals[q]
        /\ \A q \in DOMAIN vals : q > p => vals[q] > vals[p]

\* np.argmin(list): position (from 1) of the first smallest entry
ArgMin(vals) ==
    CHOOSE p \in DOMAIN vals :
        /\ \A q \in DOMAIN vals : vals[p] <= vals[q]
        /\ \A q \in DOMAIN vals : q < p => vals[q] > vals[p]

\* min_idx itself (the position in the cluster) instead of
\* cluster_pts_indices[min_idx]
ClosestPosition(pts, cen, cluster_pts_indices) ==
    ArgMin([p \in DOMAIN cluster_pts_indices |->
               Euclidean2(pts[cluster_pts_indices[p]], cen)]) - 1

\* cluster_pts_indices[np.argmin([euclidean(pts[idx], cen) for idx in ...])]
ClosestPoint(pts, cen, cluster_pts_indices) ==
    cluster_pts_indices[
        ArgMin([p \in DOMAIN cluster_pts_indices |->
                   Euclidean2(pts[cluster_pts_indices[p]], cen)])]

Raised(e) ==
    [status |-> e, k |-> None, x |-> <<>>, labels |-> <<>>,
     closest_pt_idx |-> <<>>, clusters |-> <<>>]

\* The loop over range(u.size) of kmeans_clustering, for the points pts
\* (embedded coordinates), the labels lab and the centres of the fitted
\* model.  np.argmin of an empty list raises ValueError.
CentroidLoop(pts, lab, k, xx) ==
    LET u == UniqueCount(lab) IN
    IF \E iclust \in Idx(u) : Members(lab, iclust) = <<>>
    THEN Raised("ValueError")
    ELSE [status |-> "ok", k |-> Some(k), x |-> xx, labels |-> Some(lab),
          closest_pt_idx |->
              [p \in 1 .. u |->
                  ClosestPoint(pts, Centroid(pts, Range(Members(lab, p - 1))),
                               Members(lab, p - 1))],
          clusters |-> [p \in 1 .. u |-> Members(lab, p - 1)]]

\* cluster_pts_indices[min_idx] of agglomerative_clustering: the member whose
\* row of pts is nearest to the centroid NearestCentroid fitted for its class
NearestRow(pts, cluster_pts_indices) ==
    LET cluster_cen == FCentroid(pts, cluster_pts_indices) IN
    cluster_pts_indices[
        ArgMin([p \in DOMAIN cluster_pts_indices |->
                   FEuclidean(pts[cluster_pts_indices[p]], cluster_cen)])]

\* The loop over range(u.size) of agglomerative_clustering, for the rows pts
\* of the matrix handed to NearestCentroid.fit and the labels lab.
RowLoop(pts, lab, k) ==
    LET u == UniqueCount(lab) IN
    IF \E iclust \in Idx(u) : Members(lab, iclust) = <<>>
    THEN Raised("ValueError")
    ELSE [status |-> "ok", k |-> Some(k), x |-> <<>>, labels |-> Some(lab),
          closest_pt_idx |-> [p \in 1 .. u |-> NearestRow(pts, Members(lab, p - 1))],
          clusters |-> [p \in 1 .. u |-> Members(lab, p - 1)]]

\* The loop of affprop_clustering: ap.cluster_centers_indices_[iclust] raises
\* IndexError when the fit has fewer exemplars than unique labels.
ExemplarLoop(fit) ==
    LET u == UniqueCount(fit.labels) IN
    IF u > Len(fit.centers)
    THEN Raised("IndexError")
    ELSE [status |-> "ok", k |-> None, x |-> <<>>, labels |-> Some(fit.labels),
          closest_pt_idx |-> [p \in 1 .. u |-> fit.centers[p]],
          clusters |-> [p \in 1 .. u |-> Members(fit.labels, p - 1)]]

\* the cluster counts the function goes on with: the one given, or one the
\* gap branch resolves
Resolved(n, size) == IF n = None THEN GapCounts(size) ELSE {Val(n)}

\* --------------------------------------------------- the script, marc.py
Raise(e) == pc' = "error" /\ err' = e

FnVarsIdle == UNCHANGED <<fn, rank, x, labels, nm, percentages, nrefs, gaps>>

\* processargs: the loop over consecutive pairs of molecules is the only
\* place that binds dof, which the return statement reads.
ProcessArgs ==
    /\ pc = "start"
    /\ IF N < 2 THEN Raise("UnboundLocalError")
       ELSE pc' = "rmsd" /\ err' = err
    /\ UNCHANGED <<molecules, m, rmsd_matrix, erel_matrix, da_matrix, A, call,
                   n_clusters, indices, clusters, ewin, written>>
    /\ FnVarsIdle

RmsdMetric ==
    /\ pc = "rmsd"
    /\ IF Val(m) \in {"rmsd", "ewrmsd", "mix"}
       THEN \E M \in MetricMatrices(N) :
                /\ rmsd_matrix' = Some(M)
                /\ A' = Some(M)
       ELSE UNCHANGED <<rmsd_matrix, A>>
    /\ pc' = "erel"
    /\ UNCHANGED <<err, molecules, m, erel_matrix, da_matrix, call,
                   n_clusters, indices, clusters, ewin, written>>
    /\ FnVarsIdle

ErelMetric ==
    /\ pc = "erel"
    /\ IF Val(m) \in {"erel", "ewrmsd", "ewda", "mix"}
       THEN IF NoneInEnergies
            THEN Raise("InputError") /\ UNCHANGED <<erel_matrix, A>>
            ELSE /\ \E M \in MetricMatrices(N) :
                        /\ erel_matrix' = Some(M)
                        /\ A' = Some(M)
                 /\ pc' = "da" /\ err' = err
       ELSE pc' = "da" /\ UNCHANGED <<err, erel_matrix, A>>
    /\ UNCHANGED <<molecules, m, rmsd_matrix, da_matrix, call,
                   n_clusters, indices, clusters, ewin, written>>
    /\ FnVarsIdle

DaMetric ==
    /\ pc = "da"
    /\ IF Val(m) \in {"da", "ewda", "mix"}
       THEN \E M \in MetricMatrices(N) :
                /\ da_matrix' = Some(M)
                /\ A' = Some(M)
       ELSE UNCHANGED <<da_matrix, A>>
    /\ pc' = "mix"
    /\ UNCHANGED <<err, molecules, m, rmsd_matrix, erel_matrix, call,
                   n_clusters, indices, clusters, ewin, written>>
    /\ FnVarsIdle

\* Lines 73-92: the three mixing branches, then the final scaling.
Mixed(key, rm, em, dm, a) ==
    LET a1 == IF PyEqStrList(key, <<"ewrmsd">>)
              THEN Times(Scale(Val(rm)), Scale(Val(em))) ELSE a
        a2 == IF PyEqStrList(key, <<"ewrda">>)
              THEN Times(Scale(Val(dm)), Scale(Val(em))) ELSE a1
        a3 == IF PyEqStrList(key, <<"mix">>)
              THEN Times(Times(Scale(Val(dm)), Scale(Val(em))), Scale(Val(rm)))
              ELSE a2
    IN  Scale(a3)

\* The metric key and the raw matrices are not read after line 92: the model
\* stops tracking them there.
MixAndScale ==
    /\ pc = "mix"
    /\ A' = Some(Mixed(Val(m), rmsd_matrix, erel_matrix, da_matrix, Val(A)))
    /\ m' = <<>>
    /\ rmsd_matrix' = <<>>
    /\ erel_matrix' = <<>>
    /\ da_matrix' = <<>>
    /\ pc' = "cluster"
    /\ UNCHANGED <<err, molecules, call, n_clusters, indices, clusters, ewin,
                   written>>
    /\ FnVarsIdle

Counts == {None} \cup {Some(k) : k \in 1 .. MaxN + 1}

\* The call the script makes for algorithm cc with the count k and the
\* verbosity v.  Lines 95 and 98 pass verb as the third positional argument,
\* which is the rank parameter of kmeans_clustering and
\* agglomerative_clustering (their own verb keeps its default 0); line 101
\* passes it as the verb of affprop_clustering.
CallOf(cc, k, v) ==
    IF cc = "affprop"
    THEN [fn |-> cc, n_clusters |-> None, rank |-> None, verb |-> v]
    ELSE [fn |-> cc, n_clusters |-> k, rank |-> Some(v), verb |-> 0]

\* indices, clusters = <the called function>, or its exception, in the
\* script's frame fr (the command-line values and the call made from them)
Assign(fr, r) ==
    /\ n_clusters' = fr.k
    /\ call' = Some([fn |-> fr.cl.fn, n_clusters |-> fr.cl.n_clusters,
                     rank |-> fr.cl.rank, verb |-> fr.cl.verb, k |-> r.k,
                     c |-> fr.c, cli_verb |-> fr.v])
    /\ IF r.status = "ok"
       THEN /\ indices' = r.closest_pt_idx
            /\ clusters' = r.clusters
            /\ pc' = "ewin" /\ err' = err
       ELSE /\ Raise(r.status)
            /\ UNCHANGED <<indices, clusters>>
    /\ UNCHANGED <<molecules, m, rmsd_matrix, erel_matrix, da_matrix, A, ewin,
                   written>>
    /\ FnVarsIdle

ScriptVarsIdle ==
    UNCHANGED <<molecules, m, rmsd_matrix, erel_matrix, da_matrix, A, call,
                ewin, written>>

\* a function called on its own returns r, or raises
Return(r) ==
    /\ x' = r.x
    /\ labels' = r.labels
    /\ indices' = r.closest_pt_idx
    /\ clusters' = r.clusters
    /\ IF r.status = "ok" THEN pc' = "returned" /\ err' = err
       ELSE Raise(r.status)
    /\ UNCHANGED <<fn, n_clusters, rank, nm, percentages, nrefs, gaps>>
    /\ ScriptVarsIdle

\* The result r goes to the caller: the script (its frame fr), or nobody when
\* the function is called on its own (fr = None).
Ret(fr, r) == IF fr = None THEN Return(r) ELSE Assign(Val(fr), r)

\* kmeans_clustering(n_clusters, m, rank): the caller's frame fr receives any
\* result the function can produce.  MDS rejects nan/inf and an embedding
\* without dimensions; KMeans rejects k < 1 and k > number of samples.
kmeans_clustering(n, mat, r, fr) ==
    IF ~Finite(mat) \/ r < 1 THEN Ret(fr, Raised("ValueError"))
    ELSE \E xx \in Embeddings(Size(mat), r) :
         \E k \in Resolved(n, Size(mat)) :
            IF k < 1 \/ k > Size(mat) THEN Ret(fr, Raised("ValueError"))
            ELSE \E lab \in LabelVectors(Size(mat), k) :
                    Ret(fr, CentroidLoop(xx, lab, k, Some(xx)))

\* affprop_clustering(m)
affprop_clustering(mat, fr) ==
    IF ~Finite(Affinity(mat)) THEN Ret(fr, Raised("ValueError"))
    ELSE \E fit \in AffPropFits(Size(mat)) : Ret(fr, ExemplarLoop(fit))

\* agglomerative_clustering(n_clusters, m, rank): the embedding is built only
\* in the gap branch; NearestCentroid.fit rejects a single class.  From line
\* 124 on m is the affinity matrix 1 - m, and its rows are what NearestCentroid
\* is fitted on and what the loop measures.
agglomerative_clustering(n, mat, r, fr) ==
    IF ~Finite(mat) \/ (n = None /\ r < 1) THEN Ret(fr, Raised("ValueError"))
    ELSE LET rows == OnesMinus(Doubles(mat)) IN
         \E k \in Resolved(n, Size(mat)) :
            IF k < 2 \/ k > Size(mat) THEN Ret(fr, Raised("ValueError"))
            ELSE \E lab \in LabelVectors(Size(mat), k) :
                    Ret(fr, RowLoop(rows, lab, k))

\* Lines 94-101.  c, n_clusters and verb are command-line values that no
\* earlier line of the script uses to compute anything; they are drawn here.
Dispatch ==
    /\ pc = "cluster"
    /\ \E cc \in Algorithms, k \in Counts, v \in 0 .. MaxVerb :
         LET cl == CallOf(cc, k, v)
             fr == Some([k |-> k, cl |-> cl, c |-> cc, v |-> v])
         IN  IF cl.fn = "kmeans"
             THEN kmeans_clustering(cl.n_clusters, Val(A), Val(cl.rank), fr)
             ELSE IF cl.fn = "agglomerative"
             THEN agglomerative_clustering(cl.n_clusters, Val(A),
                                           Val(cl.rank), fr)
             ELSE affprop_clustering(Val(A), fr)

Windows == {None} \cup {Some(w) : w \in 0 .. MaxEwin}

\* Lines 105-132.  Line 118 reads the name energy, which the script never
\* binds (line 115 binds energies): the first pass of the loop over clusters
\* raises NameError, so lines 120-132 are never reached.  With no cluster the
\* loop is skipped and np.min of an empty array raises ValueError.
EnergyWindow ==
    /\ pc = "ewin"
    /\ \E w \in Windows :
        /\ ewin' = Some(w)
        /\ IF w = None THEN pc' = "write" /\ err' = err
           ELSE IF NoneInEnergies THEN Raise("InputError")
           ELSE IF Len(clusters) > 0 THEN Raise("NameError")
           ELSE Raise("ValueError")
    /\ UNCHANGED <<molecules, m, rmsd_matrix, erel_matrix, da_matrix, A, call,
                   n_clusters, indices, clusters, written>>
    /\ FnVarsIdle

\* Lines 136-137: molecules[idx].write(...) for every idx of indices
WriteSelected ==
    /\ pc = "write"
    /\ written' = indices
    /\ pc' = "done"
    /\ UNCHANGED <<err, molecules, m, rmsd_matrix, erel_matrix, da_matrix, A,
                   call, n_clusters, indices, clusters, ewin>>
    /\ FnVarsIdle

EnergyLists(n) == [Idx(n) -> {None} \cup {Some(e) : e \in 0 .. MaxE}]

Init ==
    /\ pc = "start"
    /\ err = "none"
    /\ \E n \in 1 .. MaxN : molecules \in EnergyLists(n)
    /\ m \in {Some(k) : k \in Metrics}
    /\ rmsd_matrix = <<>> /\ erel_matrix = <<>> /\ da_matrix = <<>>
    /\ A = <<>> /\ call = <<>>
    /\ fn = <<>> /\ n_clusters = <<>> /\ rank = <<>> /\ x = <<>> /\ labels = <<>>
    /\ indices = <<>> /\ clusters = <<>> /\ ewin = <<>> /\ written = <<>>
    /\ nm = <<>> /\ percentages = {} /\ nrefs = <<>> /\ gaps = <<>>

Next ==
    \/ ProcessArgs
    \/ RmsdMetric
    \/ ErelMetric
    \/ DaMetric
    \/ MixAndScale
    \/ Dispatch
    \/ EnergyWindow
    \/ WriteSelected

Spec == Init /\ [][Next]_vars

\* ------------------------------- the clustering functions, called directly
\* rank=2 in the signatures of kmeans_clustering and agglomerative_clustering
DefaultRank == 2

\* the normalised matrices of n members with entries in [0,1]
UnitMatrices(n) == {Scale(M) : M \in {R \in MetricMatrices(n) : MaxEntry(R) > 0}}

\* the matrix with 1 everywhere off the diagonal
UniformMatrix(n) ==
    [num |-> [i \in Idx(n) |-> [j \in Idx(n) |-> IF i = j THEN 0 ELSE 1]],
     den |-> 1]

\* The matrices a function is called with.  kmeans_clustering reads m only
\* through MDS and m.shape[0], and any embedding can come back from MDS: one
\* matrix per size exercises it.  The other two read the entries.
Inputs(f, n) == IF f = "kmeans" THEN {UniformMatrix(n)} ELSE UnitMatrices(n)

InitCluster ==
    /\ pc = "call"
    /\ err = "none"
    /\ molecules = <<>> /\ m = <<>>
    /\ rmsd_matrix = <<>> /\ erel_matrix = <<>> /\ da_matrix = <<>>
    /\ fn \in Algorithms
    /\ \E n \in 2 .. MaxN : A \in {Some(M) : M \in Inputs(fn, n)}
    /\ call = <<>>
    /\ n_clusters \in (IF fn = "affprop" THEN {None} ELSE Counts)
    /\ rank = (IF fn = "affprop" THEN None ELSE Some(DefaultRank))
    /\ x = <<>> /\ labels = <<>>
    /\ indices = <<>> /\ clusters = <<>> /\ ewin = <<>> /\ written = <<>>
    /\ nm = <<>> /\ percentages = {} /\ nrefs = <<>> /\ gaps = <<>>

CallKMeans ==
    /\ pc = "call" /\ fn = "kmeans"
    /\ kmeans_clustering(n_clusters, Val(A), Val(rank), None)

CallAffprop ==
    /\ pc = "call" /\ fn = "affprop"
    /\ affprop_clustering(Val(A), None)

CallAgglomerative ==
    /\ pc = "call" /\ fn = "agglomerative"
    /\ agglomerative_clustering(n_clusters, Val(A), Val(rank), None)

NextCluster ==
    \/ CallKMeans
    \/ CallAffprop
    \/ CallAgglomerative

SpecCluster == InitCluster /\ [][NextCluster]_vars

\* ------------- agglomerative_clustering by itself, on finer-grained matrices
\* symmetric, zero-diagonal matrices of n members with entries in 0..MaxRaw
RawMatrices(n) ==
    { [num |-> [i \in Idx(n) |-> [j \in Idx(n) |->
                   IF i = j THEN 0
                   ELSE IF i < j THEN t[<<i, j>>] ELSE t[<<j, i>>]]],
       den |-> 1] : t \in [Pairs(n) -> 0 .. MaxRaw] }

\* The function is called with a matrix with entries in [0,1] whose largest
\* entry is 1, a cluster count or None, and the default rank.
InitRows ==
    /\ pc = "call"
    /\ err = "none"
    /\ molecules = <<>> /\ m = <<>>
    /\ rmsd_matrix = <<>> /\ erel_matrix = <<>> /\ da_matrix = <<>>
    /\ fn = "agglomerative"
    /\ \E n \in 2 .. MaxN :
          A \in {Some(Scale(M)) : M \in {R \in RawMatrices(n) : MaxEntry(R) > 0}}
    /\ call = <<>>
    /\ n_clusters \in Counts
    /\ rank = Some(DefaultRank)
    /\ x = <<>> /\ labels = <<>>
    /\ indices = <<>> /\ clusters = <<>> /\ ewin = <<>> /\ written = <<>>
    /\ nm = <<>> /\ percentages = {} /\ nrefs = <<>> /\ gaps = <<>>

NextRows == CallAgglomerative

SpecRows == InitRows /\ [][NextRows]_vars

\* ------------------ the gap branch (clustering.py lines 38-49 and 110-123)
InitGap ==
    /\ pc = "gap"
    /\ err = "none"
    /\ molecules = <<>> /\ m = <<>>
    /\ rmsd_matrix = <<>> /\ erel_matrix = <<>> /\ da_matrix = <<>>
    /\ A = <<>> /\ call = <<>>
    /\ fn \in {"kmeans", "agglomerative"}
    /\ n_clusters = None
    /\ rank = Some(DefaultRank)
    /\ x = <<>> /\ labels = <<>>
    /\ indices = <<>> /\ clusters = <<>> /\ ewin = <<>> /\ written = <<>>
    /\ nm \in {Some(n) : n \in 1 .. MaxNm}
    /\ percentages = {} /\ nrefs = <<>> /\ gaps = <<>>

GapIdle ==
    /\ UNCHANGED <<err, fn, rank, x, labels, indices, clusters, nm>>
    /\ ScriptVarsIdle

\* percentages = list(set([...]))
GapCandidates ==
    /\ pc = "gap"
    /\ percentages' = Percentages(Val(nm))
    /\ pc' = "evaluate"
    /\ UNCHANGED <<n_clusters, nrefs, gaps>>
    /\ GapIdle

\* gaps = gap(x, nrefs=max(nm, 50), ks=percentages)
GapEvaluate ==
    /\ pc = "evaluate"
    /\ nrefs' = Some(Nrefs(Val(nm)))
    /\ gaps' \in {Some(g) : g \in GapValues(percentages)}
    /\ pc' = "select"
    /\ UNCHANGED <<n_clusters, percentages>>
    /\ GapIdle

\* n_clusters = max(percentages[np.argmax(gaps)], 2)
GapSelect ==
    /\ pc = "select"
    /\ \E k \in ArgMaxGap(percentages, Val(gaps)) :
           n_clusters' = Some(SelectedCount(k))
    /\ pc' = "selected"
    /\ UNCHANGED <<percentages, nrefs, gaps>>
    /\ GapIdle

NextGap ==
    \/ GapCandidates
    \/ GapEvaluate
    \/ GapSelect

SpecGap == InitGap /\ [][NextGap]_vars

\* ================================================================== claims

\* the ensemble size seen by the function under study
Members_n == Size(Val(A))

\* C1: whenever one of the three clustering functions returns, the returned
\* clusters are a partition of 0..N-1: every ensemble index is in exactly one
\* member list, no member list is empty and none lists an index twice.
C1_Partition ==
    pc = "returned" =>
        /\ \A i \in Idx(Members_n) :
              Cardinality({p \in DOMAIN clusters : i \in Range(clusters[p])}) = 1
        /\ \A p \in DOMAIN clusters :
              /\ clusters[p] # <<>>
              /\ Range(clusters[p]) \subseteq Idx(Members_n)
              /\ Cardinality(Range(clusters[p])) = Len(clusters[p])

\* an agglomerative run that returned two clusters for three members
C1_Witness ==
    /\ pc = "returned" /\ fn = "agglomerative"
    /\ Members_n = 3 /\ Len(clusters) = 2

\* C2: whenever one of the three clustering functions returns, it returns as
\* many representatives as clusters, the representative at each position is
\* a member of the cluster at that position, and the representatives are
\* pairwise distinct ensemble indices.
C2_RepresentativeInCluster ==
    pc = "returned" =>
        /\ Len(indices) = Len(clusters)
        /\ \A p \in DOMAIN indices :
              /\ indices[p] \in Range(clusters[p])
              /\ indices[p] \in Idx(Members_n)
        /\ \A p, q \in DOMAIN indices : p # q => indices[p] # indices[q]

\* an exemplar run with two clusters whose first cluster is represented by a
\* member that is not the first of its member list
C2_Witness ==
    /\ pc = "returned" /\ fn = "affprop"
    /\ Len(indices) = 2
    /\ indices[1] # clusters[1][1]

\* squared distance, scaled by |S|^2, from the embedded point of i to the
\* mean of the embedded points of S
DistToMean(i, S) ==
    LET pts == Val(x)
        dims == DOMAIN pts[i]
        off == [d \in dims |->
                   Cardinality(S) * pts[i][d] - SumOver([j \in S |-> pts[j][d]], S)]
    IN  SumOver([d \in dims |-> off[d] * off[d]], dims)

RoundHundredths(a) ==
    LET q == a \div 100
        r == a % 100
    IN  IF r < 50 THEN q
        ELSE IF r > 50 THEN q + 1
        ELSE IF q % 2 = 0 THEN q ELSE q + 1

\* what the gap branch selected is a candidate with the largest gap value,
\* and at least 2; nrefs is the larger of N and 50
GapSelectionSound ==
    /\ pc \in {"select", "selected"} =>
          /\ Val(nrefs) >= Val(nm) /\ Val(nrefs) >= 50
          /\ Val(nrefs) \in {Val(nm), 50}
    /\ pc = "selected" =>
          /\ Val(n_clusters) \in percentages
          /\ \A j \in percentages : Val(gaps)[j] <= Val(gaps)[Val(n_clusters)]
          /\ Val(n_clusters) >= 2

\* C9 as stated: the candidates are clamp(round(N*p), 2, 50) for the five
\* percentages, nrefs is max(N, 50), and the selected count is a candidate
\* with the largest gap value, never below 2.
C9_RoundedCandidates ==
    /\ pc # "gap" =>
          percentages =
              {Min2(Max2(RoundHundredths(Val(nm) * p), 2), 50) : p \in Percents}
    /\ GapSelectionSound

\* c is floor(n*p/100) brought into 2..50
IsClampedFloor(c, n, p) ==
    \/ 2 <= c /\ c <= 50 /\ 100 * c <= n * p /\ n * p < 100 * (c + 1)
    \/ c = 2 /\ n * p < 200
    \/ c = 50 /\ n * p >= 5100

\* C9 as amended: the candidates are clamp(floor(N*p), 2, 50) for the five
\* percentages p, duplicates removed; nrefs is max(N, 50); the selected
\* count is a candidate with the largest gap value, never below 2.
C9_FlooredCandidates ==
    /\ pc # "gap" =>
          /\ \A p \in Percents :
                \E c \in percentages : IsClampedFloor(c, Val(nm), p)
          /\ \A c \in percentages :
                \E p \in Percents : IsClampedFloor(c, Val(nm), p)
    /\ GapSelectionSound

\* N = 7: 0.5 * 7 = 3.5 is truncated to the candidate 3, which is selected
C9_Witness ==
    /\ pc = "selected" /\ nm = Some(7)
    /\ percentages = {2, 3} /\ n_clusters = Some(3)

\* ---------------------------------------------------------- script claims
Good(M) ==
    /\ M.den > 0
    /\ \A i, j \in DOMAIN M.num :
          /\ 0 <= M.num[i][j] /\ M.num[i][j] <= M.den
          /\ M.num[i][j] = M.num[j][i]
    /\ \A i \in DOMAIN M.num : M.num[i][i] = 0

\* the matrices the metric key asked for
Built == {M \in {rmsd_matrix, erel_matrix, da_matrix} : M # <<>>}

\* the matrices the metric key names, in the order of the claimed product
Named(key) ==
    IF key = "ewrmsd" THEN <<rmsd_matrix, erel_matrix>>
    ELSE IF key = "ewda" THEN <<da_matrix, erel_matrix>>
    ELSE <<da_matrix, erel_matrix, rmsd_matrix>>

RECURSIVE ProductOf(_)
\* elementwise product of the individually normalised matrices of a list
ProductOf(ms) ==
    IF Len(ms) = 1 THEN Scale(Val(ms[1]))
    ELSE Times(Scale(Val(ms[1])), ProductOf(Tail(ms)))

\* equal as matrices of rationals
SameMatrix(X, Y) ==
    /\ X.den # 0 /\ Y.den # 0
    /\ \A i, j \in DOMAIN X.num : X.num[i][j] * Y.den = Y.num[i][j] * X.den

C6_UnitSymmetric ==
    [][ (pc = "mix" /\ \A M \in Built : MaxEntry(Val(M)) > 0)
        => Good(Val(A')) ]_vars

\* after scaling, a matrix whose maximum was 2 and that has an entry 1/2
C6_Witness ==
    /\ pc = "cluster" /\ N = 3
    /\ Val(A).den = 2
    /\ \E i, j \in Idx(N) : Val(A).num[i][j] = 1

\* C7: a matrix whose maximum is zero ends the run with DegenerateMetric
\* before any clustering function is called: once the script is past its
\* dispatch lines with a matrix obtained by dividing by a zero maximum, no
\* call has been made and the error is DegenerateMetric.
C7_NoCallOnDegenerate ==
    (A # <<>> /\ ~Finite(Val(A))
       /\ pc \notin {"rmsd", "erel", "da", "mix", "cluster"})
        => (call = <<>> /\ pc = "error" /\ err = "DegenerateMetric")

\* C8: fewer than 2 members, or a requested or gap-derived count k >= N, is
\* rejected before the clusterer runs: no clustering call is made for N < 2,
\* and when the count the function goes on with is N or more the run ends
\* with InsufficientData and no representative is produced or written.
C8_InsufficientDataRejected ==
    /\ (N < 2 /\ pc # "start") => (call = <<>> /\ pc = "error")
    /\ (call # <<>> /\ Val(call).k # None /\ Val(Val(call).k) >= N) =>
          /\ indices = <<>> /\ written = <<>>
          /\ pc = "error" /\ err = "InsufficientData"

\* C12: whenever the script has called kmeans_clustering or
\* agglomerative_clustering, the rank it passed is 2 and the cluster count it
\* passed is the one from the command line: neither varies with the verbosity
\* level, so runs that differ only in -v make the same call.
C12_CallIgnoresVerbosity ==
    (call # None /\ Val(call).fn \in {"kmeans", "agglomerative"}) =>
        /\ Val(call).rank = Some(DefaultRank)
        /\ Val(call).n_clusters = n_clusters

\* --- the energy window as specified
\* energy of member i
Energy(i) == Val(molecules[i])
ClusterSum(cl) == SumOver([i \in Range(cl) |-> Energy(i)], Range(cl))
ClusterSquares(cl) ==
    SumOver([i \in Range(cl) |-> Energy(i) * Energy(i)], Range(cl))

RECURSIVE ProductOfLens(_)
ProductOfLens(cls) ==
    IF cls = <<>> THEN 1 ELSE Len(Head(cls)) * ProductOfLens(Tail(cls))

\* avg of cluster p, times the product D of all cluster sizes
AvgTimesD(cls, p) == ClusterSum(cls[p]) * (ProductOfLens(cls) \div Len(cls[p]))

LowestTimesD(cls) == SetMin({AvgTimesD(cls, p) : p \in DOMAIN cls})

\* avg[p] < lowest + 0.5*std[p] + w, with std the population standard
\* deviation: n*n*var = n*sum(e^2) - sum(e)^2
Accepted(cls, p, w) ==
    LET D == ProductOfLens(cls)
        n == Len(cls[p])
        lhs == AvgTimesD(cls, p) - LowestTimesD(cls) - w * D
        nnvar == n * ClusterSquares(cls[p]) - ClusterSum(cls[p]) * ClusterSum(cls[p])
    IN  lhs < 0 \/ 4 * n * n * lhs * lhs < D * D * nnvar

RECURSIVE KeptFrom(_, _, _, _)
\* the representatives of the accepted clusters from position p on, in order
KeptFrom(ind, cls, w, p) ==
    IF p > Len(ind) THEN <<>>
    ELSE (IF Accepted(cls, p, w) THEN <<ind[p]>> ELSE <<>>)
         \o KeptFrom(ind, cls, w, p + 1)

\* the energy window block runs with a window and with every energy present
FilterStep == pc = "ewin" /\ ewin' # <<>> /\ Val(ewin') # None /\ ~NoneInEnergies

\* C3: with a window and every energy present, the block leaves in indices
\* exactly the representatives of the clusters with
\* avg < lowest + 0.5*std + ewin, in their original order, and the script
\* goes on to write them.
C3_WindowKeepsAccepted ==
    [][ FilterStep =>
          /\ pc' = "write"
          /\ indices' = KeptFrom(indices, clusters, Val(Val(ewin')), 1) ]_vars

\* C4: with ewin = 0 and every cluster's standard deviation 0 (all members
\* of a cluster have one energy), the block keeps the representatives of the
\* clusters with the lowest average, drops those of the clusters with a
\* higher average, and leaves a non-empty list.
C4_LowestClusterKept ==
    [][ ( /\ FilterStep
          /\ Val(ewin') = Some(0)
          /\ \A p \in DOMAIN clusters :
                \A i, j \in Range(clusters[p]) : Energy(i) = Energy(j) )
        => /\ pc' = "write"
           /\ indices' # <<>>
           /\ \A p \in DOMAIN clusters :
                 (AvgTimesD(clusters, p) = LowestTimesD(clusters))
                     <=> (indices[p] \in Range(indices')) ]_vars

====
